---- MODULE Spec2Model ----
(***************************************************************************)
(* The subscription service of src/main.go over the subscriptions table of *)
(* src/migrations/001_create_subscriptions_table.sql.                      *)
(*                                                                         *)
(* Text values (service names, user ids, MM-YYYY dates, query parameters)  *)
(* are sequences of one-character strings, so that the store's text        *)
(* comparison, its VARCHAR(n) length rule and its uuid parsing are         *)
(* computed on the characters.                                             *)
(*                                                                         *)
(* Every handler executes exactly one autocommit statement, so a handler   *)
(* is one atomic step on the table.                                        *)
(***************************************************************************)
EXTENDS Integers, Sequences, FiniteSets, TLC

\* ---------------------------------------------------------------- bounds
\* Rows the store is asked to insert successfully during one run.
MaxCreates == 2
\* Readings of time.Now() during one run.
MaxClock == 4

\* ------------------------------------------------------- program constants
\* service_name VARCHAR(255)
ServiceNameLen == 255
\* start_date VARCHAR(7), end_date VARCHAR(7)
DateLen == 7
\* price INTEGER: a 32-bit signed column
Int4Max == 2147483647

\* ------------------------------------------------------------------- text
DigitChars == <<"0", "1", "2", "3", "4", "5", "6", "7", "8", "9">>

LowerHex == {"0", "1", "2", "3", "4", "5", "6", "7", "8", "9",
             "a", "b", "c", "d", "e", "f"}

UpperHex == {"A", "B", "C", "D", "E", "F"}

HexChars == LowerHex \cup UpperHex

\* The byte of each character the model's texts are made of.
CharCodes ==
    (" " :> 32) @@ ("-" :> 45) @@
    ("0" :> 48) @@ ("1" :> 49) @@ ("2" :> 50) @@ ("3" :> 51) @@ ("4" :> 52) @@
    ("5" :> 53) @@ ("6" :> 54) @@ ("7" :> 55) @@ ("8" :> 56) @@ ("9" :> 57) @@
    ("A" :> 65) @@ ("B" :> 66) @@ ("C" :> 67) @@ ("D" :> 68) @@ ("E" :> 69) @@
    ("F" :> 70) @@ ("N" :> 78) @@ ("S" :> 83) @@
    ("a" :> 97) @@ ("b" :> 98) @@ ("c" :> 99) @@ ("d" :> 100) @@ ("e" :> 101) @@
    ("f" :> 102) @@ ("i" :> 105) @@ ("l" :> 108) @@ ("o" :> 111) @@
    ("p" :> 112) @@ ("t" :> 116) @@ ("u" :> 117) @@ ("x" :> 120) @@ ("y" :> 121)

CharCode(c) == CharCodes[c]

\* a <= b in the store's text order: at the first character that differs a's
\* is the smaller, or a is a prefix of b.
TextLE(a, b) ==
    \/ \E k \in 1..Len(a) :
          /\ k <= Len(b)
          /\ CharCode(a[k]) < CharCode(b[k])
          /\ \A j \in 1..(k - 1) : a[j] = b[j]
    \/ /\ Len(a) <= Len(b)
       /\ \A j \in 1..Len(a) : a[j] = b[j]

\* The client's MM-YYYY text of month m of year y.
FormatDate(m, y) ==
    << DigitChars[(m \div 10) + 1], DigitChars[(m % 10) + 1], "-",
       DigitChars[((y \div 1000) % 10) + 1], DigitChars[((y \div 100) % 10) + 1],
       DigitChars[((y \div 10) % 10) + 1], DigitChars[(y % 10) + 1] >>

\* ------------------------------------------------------ the store's columns
\* A column's verdict on a value: <<v>> when it stores v, <<>> when it refuses.
Refused == <<>>

Stored(v) == <<v>>

\* VARCHAR(n) on assignment: a longer text is refused unless everything past
\* n characters is spaces, which are cut.
Varchar(n, s) ==
    IF Len(s) <= n THEN Stored(s)
    ELSE IF \A i \in (n + 1)..Len(s) : s[i] = " " THEN Stored(SubSeq(s, 1, n))
    ELSE Refused

\* The text is a UUID in either case.  UUID texts are abridged to the first
\* group of the 8-4-4-4-12 form: eight hexadecimal digits.
IsUUIDText(s) == Len(s) = 8 /\ \A i \in 1..8 : s[i] \in HexChars

LowerChar(c) ==
    CASE c = "A" -> "a" [] c = "B" -> "b" [] c = "C" -> "c"
      [] c = "D" -> "d" [] c = "E" -> "e" [] c = "F" -> "f"
      [] OTHER -> c

\* UUID column: the text is parsed to a uuid value, which reads back in the
\* lowercase form; any other text is refused.
UuidIn(s) ==
    IF IsUUIDText(s) THEN Stored([i \in 1..8 |-> LowerChar(s[i])]) ELSE Refused

\* The column without its CHECK: any 32-bit integer is stored.
PriceOk_WithoutCheck(p) == p >= -Int4Max - 1 /\ p <= Int4Max

\* price INTEGER NOT NULL CHECK (price >= 0)
PriceOk(p) == p >= 0 /\ p <= Int4Max

\* ----------------------------------------------------------- request inputs
NoText == <<>>

Netflix == <<"N", "e", "t", "f", "l", "i", "x">>

Spotify == <<"S", "p", "o", "t", "i", "f", "y">>

\* a0eebc99(-9c0b-4ef8-bb6d-6bb9bd380a11)
UserA == <<"a", "0", "e", "e", "b", "c", "9", "9">>

\* The same UUID as a client may write it: A0EEBC99(-9C0B-4EF8-BB6D-6BB9BD380A11)
UserAUpper == <<"A", "0", "E", "E", "B", "C", "9", "9">>

\* b1ffcd00(-0d1c-4fa9-8c7e-7cca0e491b22)
UserB == <<"b", "1", "f", "f", "c", "d", "0", "0">>

\* The user id of the specification's scenarios: not a UUID.
UserU1 == <<"u", "1">>

\* The id the store generates for its n-th row, as text (gen_random_uuid() is
\* modelled as a value never handed out before).
IdText(n) == [i \in 1..8 |-> IF i = 8 THEN DigitChars[n + 1] ELSE "0"]

\* An id path parameter that is no UUID.
BadId == <<"x">>

Dec2023 == FormatDate(12, 2023)

Jan2024 == FormatDate(1, 2024)

Feb2024 == FormatDate(2, 2024)

\* What c.Bind yields for a well-formed JSON body; end_date is the *string:
\* <<>> is nil, <<s>> points to s.
Payload(id, sn, pr, uid, sd, ed) ==
    [id |-> id, service_name |-> sn, price |-> pr, user_id |-> uid,
     start_date |-> sd, end_date |-> ed]

Payloads ==
    { Payload(NoText, Netflix, 500, UserA, Dec2023, <<>>),
      Payload(IdText(1), Spotify, 700, UserB, Dec2023, <<Jan2024>>),
      Payload(NoText, Netflix, 700, UserB, Jan2024, <<Feb2024>>),
      Payload(NoText, Spotify, 0, UserAUpper, Jan2024 \o <<" ">>, <<>>),
      Payload(NoText, Netflix, -1, UserA, Jan2024, <<>>),
      Payload(NoText, Netflix, 500, UserU1, Jan2024, <<>>) }

\* A request body that c.Bind refuses.
Malformed == [malformed |-> TRUE]

Bodies == {[malformed |-> FALSE, sub |-> p] : p \in Payloads} \cup {Malformed}

PathIds == {IdText(n) : n \in 1..MaxCreates} \cup {BadId}

UserFilters == {NoText, UserB, UserAUpper, UserU1}

ServiceFilters == {NoText, Netflix}

Windows == {Dec2023, Jan2024, Feb2024}

TotalUserFilters == {NoText, UserA}

TotalServiceFilters == {NoText, Netflix}

\* The zero time.Time of a Subscription whose CreatedAt was never set.
ZeroTime == 0

\* ------------------------------------------------------------------ state
VARIABLES
    rows,      \* the subscriptions table: id text -> row
    nextId,    \* ids the store has generated
    clock,     \* the last reading of time.Now()
    resp       \* the last request and its response

vars == <<rows, nextId, clock, resp>>

Init ==
    /\ rows = <<>>
    /\ nextId = 0
    /\ clock = 0
    /\ resp = [op |-> "none", status |-> 0]

ErrorBody(msg) == [error |-> msg]

\* The Subscription as c.JSON writes it.
SubJSON(id, sn, pr, uid, sd, ed, ca, ua) ==
    [id |-> id, service_name |-> sn, price |-> pr, user_id |-> uid,
     start_date |-> sd, end_date |-> ed, created_at |-> ca, updated_at |-> ua]

RowJSON(id) ==
    SubJSON(id, rows[id].service_name, rows[id].price, rows[id].user_id,
            rows[id].start_date, rows[id].end_date,
            rows[id].created_at, rows[id].updated_at)

\* The columns of an INSERT or UPDATE as the table takes them: <<row>>, or
\* <<>> when a column type or the CHECK refuses the statement.
Columns(sub) ==
    LET sn == Varchar(ServiceNameLen, sub.service_name)
        uid == UuidIn(sub.user_id)
        sd == Varchar(DateLen, sub.start_date)
        ed == IF sub.end_date = <<>> THEN Stored(<<>>)
              ELSE LET v == Varchar(DateLen, sub.end_date[1])
                   IN  IF v = Refused THEN Refused ELSE Stored(<<v[1]>>)
    IN  IF sn = Refused \/ uid = Refused \/ sd = Refused \/ ed = Refused
           \/ ~PriceOk(sub.price)
        THEN Refused
        ELSE Stored([service_name |-> sn[1], price |-> sub.price,
                     user_id |-> uid[1], start_date |-> sd[1],
                     end_date |-> ed[1]])

Extend(f, k, v) == [x \in DOMAIN f \cup {k} |-> IF x = k THEN v ELSE f[x]]

Without(f, k) == [x \in DOMAIN f \ {k} |-> f[x]]

\* An INSERT that leaves end_date out of its column list.
InsertedRow_WithoutEndDate(cols, t1, t2) ==
    [service_name |-> cols.service_name, price |-> cols.price,
     user_id |-> cols.user_id, start_date |-> cols.start_date,
     end_date |-> <<>>, created_at |-> t1, updated_at |-> t2]

\* The row INSERT writes: the seven columns from $1..$7.
InsertedRow(cols, t1, t2) ==
    [service_name |-> cols.service_name, price |-> cols.price,
     user_id |-> cols.user_id, start_date |-> cols.start_date,
     end_date |-> cols.end_date, created_at |-> t1, updated_at |-> t2]

\* The INSERT ... RETURNING id of sub and the response to it; t1 and t2 are the
\* two readings of time.Now().
InsertAndRespond(body, sub, t1, t2) ==
    /\ clock' = t2
    /\ IF Columns(sub) = Refused
       THEN /\ resp' = [op |-> "Create", status |-> 500, body |-> body,
                        out |-> ErrorBody("failed to create subscription")]
            /\ UNCHANGED <<rows, nextId>>
       ELSE /\ nextId < MaxCreates
            /\ rows' = Extend(rows, IdText(nextId + 1),
                              InsertedRow(Columns(sub)[1], t1, t2))
            /\ nextId' = nextId + 1
            /\ resp' = [op |-> "Create", status |-> 201, body |-> body,
                        out |-> SubJSON(IdText(nextId + 1), sub.service_name,
                                   sub.price, sub.user_id, sub.start_date,
                                   sub.end_date, ZeroTime, ZeroTime)]

CreateSubscription(body) ==
    IF body.malformed
    THEN /\ resp' = [op |-> "Create", status |-> 400, body |-> body,
                     out |-> ErrorBody("invalid request body")]
         /\ UNCHANGED <<rows, nextId, clock>>
    ELSE /\ clock + 2 <= MaxClock
         /\ \E t2 \in {clock + 1, clock + 2} :
               InsertAndRespond(body, body.sub, clock + 1, t2)

GetSubscription(id) ==
    LET key == UuidIn(id)
    IN  /\ IF key # Refused /\ key[1] \in DOMAIN rows
           THEN resp' = [op |-> "Get", status |-> 200, id |-> id,
                         out |-> RowJSON(key[1])]
           ELSE resp' = [op |-> "Get", status |-> 404, id |-> id,
                         out |-> ErrorBody("subscription not found")]
        /\ UNCHANGED <<rows, nextId, clock>>

\* An UPDATE that merges: an end_date the payload omits keeps the old one.
UpdatedRow_KeepsOmittedEndDate(old, cols, t) ==
    [service_name |-> cols.service_name, price |-> cols.price,
     user_id |-> cols.user_id, start_date |-> cols.start_date,
     end_date |-> IF cols.end_date = <<>> THEN old.end_date ELSE cols.end_date,
     created_at |-> old.created_at, updated_at |-> t]

\* The row UPDATE leaves: $1..$6 replace the five fields and updated_at.
UpdatedRow(old, cols, t) ==
    [service_name |-> cols.service_name, price |-> cols.price,
     user_id |-> cols.user_id, start_date |-> cols.start_date,
     end_date |-> cols.end_date, created_at |-> old.created_at,
     updated_at |-> t]

\* The UPDATE ... WHERE id = $7 RETURNING id of sub and the response to it; t is
\* the reading of time.Now().
UpdateAndRespond(id, body, sub, t) ==
    /\ clock' = t
    /\ IF /\ Columns(sub) # Refused
          /\ UuidIn(id) # Refused
          /\ UuidIn(id)[1] \in DOMAIN rows
       THEN /\ rows' = [rows EXCEPT ![UuidIn(id)[1]] =
                          UpdatedRow(@, Columns(sub)[1], t)]
            /\ resp' = [op |-> "Update", status |-> 200, id |-> id, body |-> body,
                        out |-> SubJSON(UuidIn(id)[1], sub.service_name,
                                   sub.price, sub.user_id, sub.start_date,
                                   sub.end_date, ZeroTime, ZeroTime)]
       ELSE /\ resp' = [op |-> "Update", status |-> 404, id |-> id, body |-> body,
                        out |-> ErrorBody("subscription not found")]
            /\ UNCHANGED rows
    /\ UNCHANGED nextId

\* The Subscription a failed c.Bind leaves: every field at its zero value.
ZeroSub == Payload(NoText, NoText, 0, NoText, NoText, <<>>)

\* An Update that does not return on the bind error and goes on with the
\* zero Subscription.
UpdateSubscription_IgnoresBindError(id, body) ==
    /\ clock + 1 <= MaxClock
    /\ UpdateAndRespond(id, body, IF body.malformed THEN ZeroSub ELSE body.sub,
                        clock + 1)

UpdateSubscription(id, body) ==
    IF body.malformed
    THEN /\ resp' = [op |-> "Update", status |-> 400, id |-> id, body |-> body,
                     out |-> ErrorBody("invalid request body")]
         /\ UNCHANGED <<rows, nextId, clock>>
    ELSE /\ clock + 1 <= MaxClock
         /\ UpdateAndRespond(id, body, body.sub, clock + 1)

\* A Delete that does not look at RowsAffected.
DeleteSubscription_IgnoresRowsAffected(id) ==
    /\ IF UuidIn(id) # Refused /\ UuidIn(id)[1] \in DOMAIN rows
       THEN rows' = Without(rows, UuidIn(id)[1])
       ELSE UNCHANGED rows
    /\ resp' = IF UuidIn(id) # Refused
               THEN [op |-> "Delete", status |-> 204, id |-> id]
               ELSE [op |-> "Delete", status |-> 404, id |-> id,
                     out |-> ErrorBody("subscription not found")]
    /\ UNCHANGED <<nextId, clock>>

DeleteSubscription(id) ==
    LET key == UuidIn(id)
    IN  /\ IF key # Refused /\ key[1] \in DOMAIN rows
           THEN /\ rows' = Without(rows, key[1])
                /\ resp' = [op |-> "Delete", status |-> 204, id |-> id]
           ELSE /\ resp' = [op |-> "Delete", status |-> 404, id |-> id,
                            out |-> ErrorBody("subscription not found")]
                /\ UNCHANGED rows
        /\ UNCHANGED <<nextId, clock>>

\* ------------------------------------------------------------ WHERE clauses
\* One predicate of a WHERE clause: column, comparison, and the number n of its
\* placeholder $n.
Pred(col, cmp, ph) == [col |-> col, cmp |-> cmp, ph |-> ph]

\* The statement has as many parameters as its highest placeholder.
ParamCount(preds) ==
    LET phs == {preds[i].ph : i \in DOMAIN preds}
    IN  IF phs = {} THEN 0 ELSE CHOOSE n \in phs : \A m \in phs : m <= n

\* A parameter as the compared column's type reads it: <<value>>, or <<>> when
\* the type cannot take it and the store refuses the statement.
ParamIn(pred, arg) == IF pred.col = "user_id" THEN UuidIn(arg) ELSE Stored(arg)

RowSatisfies(row, pred, val) ==
    CASE pred.col = "user_id" -> row.user_id = val
      [] pred.col = "service_name" -> row.service_name = val
      [] pred.col = "start_date" /\ pred.cmp = "<=" -> TextLE(row.start_date, val)
      [] pred.col = "end_date" /\ pred.cmp = "IS NULL OR >=" ->
            row.end_date = <<>> \/ TextLE(val, row.end_date[1])

\* The statement with its parameters read: refused by the store when a column
\* type cannot take its parameter, else the ids of the rows it selects.
Execute(preds, vals) ==
    IF \E i \in DOMAIN preds : vals[i] = Refused
    THEN [err |-> "exec", ids |-> {}]
    ELSE [err |-> "",
          ids |-> {id \in DOMAIN rows :
                     \A i \in DOMAIN preds :
                        RowSatisfies(rows[id], preds[i], vals[i][1])}]

\* The outcome of running SELECT ... WHERE preds with args: err is "send" when
\* the driver refuses the call (argument count), "exec" when the store refuses
\* the statement, "" otherwise, with the ids of the rows selected.
RunWhere(preds, args) ==
    IF ParamCount(preds) # Len(args)
    THEN [err |-> "send", ids |-> {}]
    ELSE Execute(preds,
                 [i \in DOMAIN preds |-> ParamIn(preds[i], args[preds[i].ph])])

RunQuery(q) == RunWhere(q.preds, q.args)

\* The placeholder numbered len(args) instead of len(args)+1.
AddFilter_PlaceholderOffByOne(q, col, v) ==
    IF v # NoText
    THEN [preds |-> Append(q.preds, Pred(col, "=", Len(q.args))),
          args |-> Append(q.args, v)]
    ELSE q

\* query += fmt.Sprintf(" AND <col> = $%d", len(args)+1); args = append(args, v)
AddFilter(q, col, v) ==
    IF v # NoText
    THEN [preds |-> Append(q.preds, Pred(col, "=", Len(q.args) + 1)),
          args |-> Append(q.args, v)]
    ELSE q

\* query += " AND user_id = $1"; args = append(args, userID)
AddUserFilterFirst(q, userID) ==
    IF userID # NoText
    THEN [preds |-> Append(q.preds, Pred("user_id", "=", 1)),
          args |-> Append(q.args, userID)]
    ELSE q

ListQuery(userID, serviceName) ==
    AddFilter(AddUserFilterFirst([preds |-> <<>>, args |-> <<>>], userID),
              "service_name", serviceName)

\* The response body of ListSubscriptions: a nil slice is written as null, any
\* other as the array of its records (in the store's order, kept as a set).
ListBody(ids) ==
    IF ids = {} THEN [null |-> TRUE, items |-> {}]
    ELSE [null |-> FALSE, items |-> {RowJSON(id) : id \in ids}]

\* The response once db.Query has returned r.
ListRespond(userID, serviceName, r) ==
    IF r.err = "send"
    THEN [op |-> "List", status |-> 500, user_id |-> userID,
          service_name |-> serviceName,
          out |-> ErrorBody("failed to list subscriptions")]
    ELSE \* an error of the store ends rows.Next(); rows.Err() is not read
         [op |-> "List", status |-> 200, user_id |-> userID,
          service_name |-> serviceName, out |-> ListBody(r.ids)]

ListSubscriptions(userID, serviceName) ==
    /\ resp' = ListRespond(userID, serviceName,
                           RunQuery(ListQuery(userID, serviceName)))
    /\ UNCHANGED <<rows, nextId, clock>>

TotalQuery(startDate, endDate, userID, serviceName) ==
    AddFilter(
        AddFilter([preds |-> <<Pred("start_date", "<=", 1),
                               Pred("end_date", "IS NULL OR >=", 2)>>,
                   args |-> <<endDate, startDate>>],
                  "user_id", userID),
        "service_name", serviceName)

RECURSIVE SumPrice(_)
SumPrice(ids) ==
    IF ids = {} THEN 0
    ELSE LET id == CHOOSE x \in ids : TRUE
         IN  rows[id].price + SumPrice(ids \ {id})

\* SUM(price): NULL (<<>>) over no rows, else <<the sum>>.
SqlSum(ids) == IF ids = {} THEN <<>> ELSE <<SumPrice(ids)>>

\* The response once QueryRow(...).Scan(&total) has read sum from r.
TotalRespond(startDate, endDate, userID, serviceName, r, sum) ==
    IF r.err # "" \/ sum = <<>>
    THEN \* Scan fails: on the statement's error, or on a NULL, which does not
         \* scan into an int
         [op |-> "Total", status |-> 500, start_date |-> startDate,
          end_date |-> endDate, user_id |-> userID, service_name |-> serviceName,
          out |-> ErrorBody("failed to calculate total")]
    ELSE [op |-> "Total", status |-> 200, start_date |-> startDate,
          end_date |-> endDate, user_id |-> userID, service_name |-> serviceName,
          out |-> [total |-> sum[1]]]

TotalOf(startDate, endDate, userID, serviceName, r) ==
    TotalRespond(startDate, endDate, userID, serviceName, r, SqlSum(r.ids))

CalculateTotal(startDate, endDate, userID, serviceName) ==
    /\ resp' = TotalOf(startDate, endDate, userID, serviceName,
                       RunQuery(TotalQuery(startDate, endDate, userID, serviceName)))
    /\ UNCHANGED <<rows, nextId, clock>>

\* -------------------------------------------------------------- the service
\* The three handlers that write the table.
Writes ==
    \/ \E b \in Bodies : CreateSubscription(b)
    \/ \E id \in PathIds, b \in Bodies : UpdateSubscription(id, b)
    \/ \E id \in PathIds : DeleteSubscription(id)

\* A read leaves the table as it is, so each specification follows the writes
\* and the one read its claims are about.
Next ==
    \/ Writes
    \/ \E id \in PathIds : GetSubscription(id)

Spec == Init /\ [][Next]_vars

NextList ==
    \/ Writes
    \/ \E u \in UserFilters, n \in ServiceFilters : ListSubscriptions(u, n)

SpecList == Init /\ [][NextList]_vars

NextTotal ==
    \/ Writes
    \/ \E s \in Windows, e \in Windows, u \in TotalUserFilters,
          n \in TotalServiceFilters : CalculateTotal(s, e, u, n)

SpecTotal == Init /\ [][NextTotal]_vars

\* ------------------------------------------------- what the claims speak of
\* The month a well-formed MM-YYYY text names, counted from year 0.
MonthOf(t) ==
    (  (CharCode(t[4]) - 48) * 1000 + (CharCode(t[5]) - 48) * 100
     + (CharCode(t[6]) - 48) * 10 + (CharCode(t[7]) - 48)) * 12
    + (CharCode(t[1]) - 48) * 10 + (CharCode(t[2]) - 48)

\* Texts a and b name the same UUID.
SameUuid(a, b) ==
    /\ IsUUIDText(a)
    /\ Len(a) = Len(b)
    /\ \A i \in 1..Len(a) : LowerChar(a[i]) = LowerChar(b[i])

\* out is the lowercase writing of the UUID text in.
LowercaseOf(in, out) ==
    /\ SameUuid(in, out)
    /\ \A i \in 1..Len(out) : out[i] \notin UpperHex

\* out is the text in as a column of n characters keeps it: in itself, or, when
\* in is longer, in without the spaces past n characters.
KeptIn(n, in, out) ==
    IF Len(in) <= n THEN out = in
    ELSE /\ out = SubSeq(in, 1, n)
         /\ \A i \in (n + 1)..Len(in) : in[i] = " "

\* The same for the *string of end_date.
KeptEndDate(in, out) ==
    IF in = <<>> THEN out = <<>>
    ELSE Len(out) = 1 /\ KeptIn(DateLen, in[1], out[1])

\* The record out carries the five fields of payload sub as it sent them.
EqualsPayload(sub, out) ==
    /\ out.service_name = sub.service_name
    /\ out.price = sub.price
    /\ out.user_id = sub.user_id
    /\ out.start_date = sub.start_date
    /\ out.end_date = sub.end_date

\* The record out carries the five fields of payload sub as the table's columns
\* keep them.
EqualsPayloadAsKept(sub, out) ==
    /\ KeptIn(ServiceNameLen, sub.service_name, out.service_name)
    /\ out.price = sub.price
    /\ LowercaseOf(sub.user_id, out.user_id)
    /\ KeptIn(DateLen, sub.start_date, out.start_date)
    /\ KeptEndDate(sub.end_date, out.end_date)

\* The subscription is active, by the calendar, in some month of the window.
ActiveIn(row, startDate, endDate) ==
    /\ MonthOf(row.start_date) <= MonthOf(endDate)
    /\ row.end_date = <<>> \/ MonthOf(row.end_date[1]) >= MonthOf(startDate)

\* The row passes the optional user_id and service_name filters.
PassesFilters(row, userID, serviceName) ==
    /\ userID = NoText \/ SameUuid(userID, row.user_id)
    /\ serviceName = NoText \/ row.service_name = serviceName

Assigned == {IdText(n) : n \in 1..nextId}

\* ------------------------------------------------------------------ claims

\* C1: CalculateTotal responds 200 with {"total": 0} whenever no stored
\* subscription matches the window and the optional filters, the empty table
\* included.
C1_TotalZeroWhenNothingMatches ==
    ( /\ resp.op = "Total"
      /\ \A id \in DOMAIN rows :
            ~( /\ ActiveIn(rows[id], resp.start_date, resp.end_date)
               /\ PassesFilters(rows[id], resp.user_id, resp.service_name) ) )
    => (resp.status = 200 /\ resp.out = [total |-> 0])

\* C2: with one stored subscription running from S to E (S not after E by the
\* calendar), the unfiltered total for the window S..E is its price, and the
\* total for a window wholly before S or wholly after E does not carry its
\* price.
C2_WindowOfOneSubscription ==
    ( /\ resp.op = "Total"
      /\ resp.user_id = NoText
      /\ resp.service_name = NoText
      /\ Cardinality(DOMAIN rows) = 1 )
    => \A id \in DOMAIN rows :
          ( /\ rows[id].end_date # <<>>
            /\ MonthOf(rows[id].start_date) <= MonthOf(rows[id].end_date[1]) )
          => /\ ( /\ resp.start_date = rows[id].start_date
                  /\ resp.end_date = rows[id].end_date[1] )
                => (resp.status = 200 /\ resp.out.total = rows[id].price)
             /\ ( /\ MonthOf(resp.start_date) <= MonthOf(resp.end_date)
                  /\ \/ MonthOf(resp.end_date) < MonthOf(rows[id].start_date)
                     \/ MonthOf(resp.start_date) > MonthOf(rows[id].end_date[1]) )
                => (resp.status = 200 => resp.out.total = 0)

\* C3: a stored subscription without end_date counts in every window whose end
\* month is, by the calendar, at or after its start_date, when the filters
\* given match it.
C3_OpenEndedCounts ==
    resp.op = "Total"
    => \A id \in DOMAIN rows :
          ( /\ rows[id].end_date = <<>>
            /\ MonthOf(resp.end_date) >= MonthOf(rows[id].start_date)
            /\ PassesFilters(rows[id], resp.user_id, resp.service_name) )
          => (resp.status = 200 /\ resp.out.total >= rows[id].price)

\* C4 as stated: a Get on the id a 201 Create returned responds 200 with the
\* payload's service_name, price, user_id, start_date and end_date, the
\* store's id and populated created_at and updated_at.
C4_GetAfterCreate ==
    [][ ( /\ resp.op = "Create"
          /\ resp.status = 201
          /\ resp'.op = "Get"
          /\ resp'.id = resp.out.id )
        => ( /\ resp'.status = 200
             /\ EqualsPayload(resp.body.sub, resp'.out)
             /\ resp'.out.id = IdText(nextId)
             /\ resp'.out.created_at # ZeroTime
             /\ resp'.out.updated_at # ZeroTime ) ]_vars

\* C4 amended: the record carries the payload's fields as the table's columns
\* keep them: user_id in the lowercase writing of the UUID, a text longer than
\* its column without its spaces past the column's length.
C4_GetAfterCreateAsKept ==
    [][ ( /\ resp.op = "Create"
          /\ resp.status = 201
          /\ resp'.op = "Get"
          /\ resp'.id = resp.out.id )
        => ( /\ resp'.status = 200
             /\ EqualsPayloadAsKept(resp.body.sub, resp'.out)
             /\ resp'.out.id = IdText(nextId)
             /\ resp'.out.created_at # ZeroTime
             /\ resp'.out.updated_at # ZeroTime ) ]_vars

\* A record fetched right after the one Create that made it, from a payload
\* whose user_id was written in upper case.
C4_Witness ==
    /\ resp.op = "Get"
    /\ resp.status = 200
    /\ clock = 1
    /\ resp.out.service_name = Spotify
    /\ resp.out.user_id = UserA

\* The step is a 200 Update.
UpdateDone == resp'.op = "Update" /\ resp'.status = 200 /\ clock' # clock

\* C5 as stated: a 200 Update advances updated_at and keeps created_at and
\* id, and a Get on the same id then returns the payload's five fields, an
\* omitted end_date as absent.
C5_GetAfterUpdate ==
    [][ /\ UpdateDone
           => /\ resp'.out.id \in DOMAIN rows
              /\ DOMAIN rows' = DOMAIN rows
              /\ rows'[resp'.out.id].updated_at > rows[resp'.out.id].updated_at
              /\ rows'[resp'.out.id].created_at = rows[resp'.out.id].created_at
        /\ ( /\ resp.op = "Update"
             /\ resp.status = 200
             /\ resp'.op = "Get"
             /\ resp'.id = resp.id )
           => /\ resp'.status = 200
              /\ resp'.out.id = resp.out.id
              /\ resp'.out = RowJSON(resp.out.id)
              /\ EqualsPayload(resp.body.sub, resp'.out) ]_vars

\* C5 amended: the Get returns the payload's fields as the table's columns keep
\* them (see C4).
C5_GetAfterUpdateAsKept ==
    [][ /\ UpdateDone
           => /\ resp'.out.id \in DOMAIN rows
              /\ DOMAIN rows' = DOMAIN rows
              /\ rows'[resp'.out.id].updated_at > rows[resp'.out.id].updated_at
              /\ rows'[resp'.out.id].created_at = rows[resp'.out.id].created_at
        /\ ( /\ resp.op = "Update"
             /\ resp.status = 200
             /\ resp'.op = "Get"
             /\ resp'.id = resp.id )
           => /\ resp'.status = 200
              /\ resp'.out.id = resp.out.id
              /\ resp'.out = RowJSON(resp.out.id)
              /\ EqualsPayloadAsKept(resp.body.sub, resp'.out) ]_vars

\* A record fetched after an Update whose payload had no end_date: Create
\* leaves updated_at at most one reading after created_at.
C5_Witness ==
    /\ resp.op = "Get"
    /\ resp.status = 200
    /\ resp.out.updated_at > resp.out.created_at + 1
    /\ resp.out.end_date = <<>>
    /\ resp.out.service_name = Netflix

\* C6: a deleted id stays absent (ids are not handed out twice), a Get of an
\* absent id responds 404, a Delete responds 204 exactly when the row was
\* there and then removes that row alone, and 404 otherwise, changing nothing.
C6_DeleteThenNotFound ==
    [][ /\ \A id \in Assigned : id \notin DOMAIN rows => id \notin DOMAIN rows'
        /\ (resp'.op = "Get" /\ ~(\E id \in DOMAIN rows' : SameUuid(resp'.id, id)))
           => resp'.status = 404
        /\ resp'.op = "Delete"
           => IF \E id \in DOMAIN rows : SameUuid(resp'.id, id)
              THEN /\ resp'.status = 204
                   /\ DOMAIN rows' = {id \in DOMAIN rows : ~SameUuid(resp'.id, id)}
                   /\ \A id \in DOMAIN rows' : rows'[id] = rows[id]
              ELSE resp'.status = 404 /\ rows' = rows ]_vars

\* A Get of an id that was created and then deleted.
C6_Witness ==
    /\ resp.op = "Get"
    /\ resp.status = 404
    /\ resp.id \in Assigned
    /\ resp.id \notin DOMAIN rows

\* C7: List responds with exactly the stored records that pass the filters
\* given: all of them without filters, those of user U, those of service N, or
\* those of both.
C7_ListReturnsTheFiltered ==
    resp.op = "List"
    => /\ resp.status = 200
       /\ resp.out.items =
             {RowJSON(id) : id \in
                 {k \in DOMAIN rows :
                    PassesFilters(rows[k], resp.user_id, resp.service_name)}}

\* Both filters given, one of two stored records passes them.
C7_Witness ==
    /\ resp.op = "List"
    /\ resp.user_id # NoText
    /\ resp.service_name # NoText
    /\ Cardinality(DOMAIN rows) = 2
    /\ Cardinality(resp.out.items) = 1

\* C8: when no stored record passes the filters, List responds 200 with an
\* empty array, not with null.
C8_EmptyListIsAnArray ==
    ( /\ resp.op = "List"
      /\ \A id \in DOMAIN rows :
            ~PassesFilters(rows[id], resp.user_id, resp.service_name) )
    => (resp.status = 200 /\ ~resp.out.null /\ resp.out.items = {})

\* C9: a Create or Update whose body does not bind responds 400 with the
\* generic error and leaves the table as it was.
C9_BindFailureChangesNothing ==
    [][ (resp'.op \in {"Create", "Update"} /\ resp'.body.malformed)
        => ( /\ resp'.status = 400
             /\ resp'.out = ErrorBody("invalid request body")
             /\ rows' = rows
             /\ nextId' = nextId ) ]_vars

\* A malformed Update of a stored record.
C9_Witness ==
    /\ resp.op = "Update"
    /\ resp.body.malformed
    /\ resp.id \in DOMAIN rows

\* C10: every stored price is at least 0; a Create or Update carrying a
\* negative price is answered with an error status (500 by Create) and leaves
\* the table as it was.
C10_PriceNeverNegative ==
    [][ /\ \A id \in DOMAIN rows' : rows'[id].price >= 0
        /\ ( /\ resp'.op \in {"Create", "Update"}
             /\ ~resp'.body.malformed
             /\ resp'.body.sub.price < 0 )
           => ( /\ resp'.status >= 400
                /\ resp'.op = "Create" => resp'.status = 500
                /\ rows' = rows ) ]_vars

\* An Update with a negative price aimed at a stored record.
C10_Witness ==
    /\ resp.op = "Update"
    /\ ~resp.body.malformed
    /\ resp.body.sub.price < 0
    /\ resp.id \in DOMAIN rows

====
